---- MODULE Spec2Model ----
(***************************************************************************)
(* Model of sample_factory/algo/rollout_worker.py: BatchedVectorEnvRunner   *)
(* (init, _update_trajectory_buffers, _process_rewards, _process_env_step,  *)
(* _finalize_trajectories, advance_rollouts), the shared trajectory buffer  *)
(* queue it draws slices from, the external consumer that gives slices      *)
(* back, and RolloutWorker (init, advance_rollouts, _enqueue_policy_request,*)
(* _enqueue_complete_rollouts, _decorrelate_experience).  Rewards, values,  *)
(* recurrent states and gamma are floats in the source; the model does the  *)
(* same arithmetic on small integers.                                       *)
(***************************************************************************)
EXTENDS Integers, Sequences, FiniteSets, TLC

\* ------------------------------------------------------------------ bounds
MaxT == 2            \* cfg.rollout ranges over 1..MaxT
NumSlices == 3       \* slices of the shared trajectory storage
NumWorkers == 2      \* worker_idx ranges over 0..NumWorkers-1
NumSplits == 2       \* split_idx ranges over 0..NumSplits-1
NumAgents == 2       \* agents of one runner in the episode specification
MaxCalls == 5        \* init and advance_rollouts calls (all runners) in Spec
MaxEpisodeCalls == 4 \* init and advance_rollouts calls in SpecEpisode
MaxRewardCalls == 2  \* init and advance_rollouts calls in SpecReward
MaxRnnCalls == 3     \* init and advance_rollouts calls in SpecRnn
MaxWorkerCalls == 4  \* init and advance_rollouts calls of workers and runners in SpecWorker

\* ------------------------------------------------------------- value sets
None == 0
Slices == 1..NumSlices
WorkerIds == 0..(NumWorkers - 1)
SplitIds == 0..(NumSplits - 1)
RunnerIds == WorkerIds \X SplitIds
Fields == {"obs", "rnn_states", "actions", "values", "log_prob_actions",
           "rewards", "dones", "policy_id"}
PolicyOutputKeys == {"actions", "values", "log_prob_actions"}
EnvStepKeys == {"rewards", "dones", "policy_id"}
NextStepKeys == {"obs", "rnn_states"}
RawRewards == {0 - 3, 1}
\* reward batches of the episode specification: the agents with an even index
\* lose while the others gain, or the other way round
EpisodeRewards(n) ==
    {[i \in 0..(n - 1) |-> IF i % 2 = 0 THEN 0 - 3 ELSE 1],
     [i \in 0..(n - 1) |-> IF i % 2 = 0 THEN 1 ELSE 0 - 3]}
\* value estimates of the policy: the same for every agent, or growing with the index
ValueEstimates(n) == {[i \in 0..(n - 1) |-> 3], [i \in 0..(n - 1) |-> i + 1]}
\* updated recurrent states of the policy, never zero: the same for every agent,
\* or growing with the index
RnnStates(n) == {[i \in 0..(n - 1) |-> 5], [i \in 0..(n - 1) |-> i + 1]}

VARIABLES
    cfg,                  \* cfg.rollout, reward_scale, reward_clip, gamma, value_bootstrap, ...
    env_info,             \* env_info.num_agents
    vec_env,              \* what the external environment group and policy can produce
    traj_buffer_queue,    \* the shared queue of idle slice handles
    pc,                   \* per runner: "uninit", "ready", "failed"
    curr_traj_slice,      \* per runner: self.curr_traj_slice
    curr_traj,            \* per runner: the slice self.curr_traj is a view of
    rollout_step,         \* per runner: self.rollout_step
    curr_episode_reward,  \* per runner, per agent
    curr_episode_len,     \* per runner, per agent
    completed,            \* slice handles returned as complete rollouts, on their way to the consumer
    consumer,             \* slice handles the consumer has received
    written,              \* per slice, per field: rows written since the slice was last acquired
    call_log,             \* per runner: queue and slice operations of its last init/advance call
    last,                 \* per runner: inputs, outputs and outcome of its last call
    ncalls,               \* per runner: advance_rollouts calls that returned
    ncompleted,           \* per runner: complete rollouts returned so far
    handed_off,           \* per runner: slices returned as complete and not acquired again since
    episode,              \* per runner, per agent: raw sum, processed sum and steps since the last reset
    budget,               \* init and advance_rollouts calls left in this run
    last_rnn_state,       \* per runner, per agent: self.last_rnn_state
    nacquired,            \* per runner: slices it has taken from the queue so far
    env_runners,          \* per worker: self.env_runners, the split indices of its runners in list order
    num_complete_rollouts,\* per worker: self.num_complete_rollouts
    worker_pc,            \* per worker: "new", or "failed" once a call of it has raised
    inference_queues,     \* per policy id: the requests put on self.inference_queues[policy_id]
    wlast,                \* per worker: outcome and emitted messages of its last call
    slept                 \* per worker: the delays _decorrelate_experience has slept

vars == <<cfg, env_info, vec_env, traj_buffer_queue, pc, curr_traj_slice, curr_traj,
          rollout_step, curr_episode_reward, curr_episode_len, completed, consumer,
          written, call_log, last, ncalls, ncompleted, handed_off, episode, budget,
          last_rnn_state, nacquired, env_runners, num_complete_rollouts, worker_pc,
          inference_queues, wlast, slept>>

worker_vars == <<env_runners, num_complete_rollouts, worker_pc, inference_queues, wlast, slept>>

Agents == 0..(env_info.num_agents - 1)
\* the runners of cfg.num_workers workers with cfg.worker_num_splits splits each
RunnersOf(c) == {r \in RunnerIds : r[1] < c.num_workers /\ r[2] < c.worker_num_splits}
Runners == RunnersOf(cfg)
WorkersOf(c) == {w \in WorkerIds : w < c.num_workers}
Workers == WorkersOf(cfg)

\* --------------------------------------------------------------- helpers
\* mutant: only the upper end of the range is enforced
Clamp_upper(x, lo, hi) == IF x > hi THEN hi ELSE x

\* Tensor.clamp_(lo, hi)
Clamp(x, lo, hi) == IF x < lo THEN lo ELSE IF x > hi THEN hi ELSE x
Float(b) == IF b THEN 1 ELSE 0

\* auxiliary info of one env step: a dict of tensors (optionally with the key
\* 'time_outs') or a list of per-agent dicts (optionally with 'true_objective')
DictInfos(n) ==
    {[kind |-> "dict", has_time_outs |-> FALSE, time_outs |-> [i \in 0..(n - 1) |-> FALSE],
      true_objective |-> [i \in 0..(n - 1) |-> None]]}
TimeOutInfos(n) ==
    {[kind |-> "dict", has_time_outs |-> TRUE, time_outs |-> f,
      true_objective |-> [i \in 0..(n - 1) |-> None]] : f \in [0..(n - 1) -> BOOLEAN]}
ListInfos(n, objectives) ==
    {[kind |-> "list", has_time_outs |-> FALSE, time_outs |-> [i \in 0..(n - 1) |-> FALSE],
      true_objective |-> o] : o \in objectives}
\* a list of per-agent dicts that carry the key 'is_active': every agent active,
\* or every agent inactive
ActivityInfos(n) ==
    {[kind |-> "list", has_time_outs |-> FALSE, time_outs |-> [i \in 0..(n - 1) |-> FALSE],
      true_objective |-> [i \in 0..(n - 1) |-> None],
      is_active |-> [i \in 0..(n - 1) |-> active]] : active \in BOOLEAN}

\* 'time_outs' in infos: a key of the dict; never an element of a list of dicts
TimeOutsIn(infos) == infos.kind = "dict" /\ infos.has_time_outs

\* worker init: policy_id = self.worker_idx % self.cfg.num_policies
PolicyIdOf(r) == r[1] % cfg.num_policies

\* one entry of a call's log: a write into a slice row, or a queue get
Write(traj, row, keys) == [op |-> "write", traj |-> traj, row |-> row, keys |-> keys]
\* the write of obs and rnn_states into a row, with the recurrent state written
WriteNext(traj, row, rnn_state) ==
    [op |-> "write", traj |-> traj, row |-> row, keys |-> NextStepKeys,
     rnn_states |-> rnn_state]
Get(traj) == [op |-> "get", traj |-> traj, row |-> 0, keys |-> {}]
GetEmpty == [op |-> "empty", traj |-> None, row |-> 0, keys |-> {}]

NoRows == [f \in Fields |-> {}]

\* the rows each slice holds after one log entry: a get hands the slice over
\* with nothing written by the new holder, a write adds its row to its keys
ApplyEntry(w, e) ==
    IF e.op = "get" THEN [w EXCEPT ![e.traj] = NoRows]
    ELSE IF e.op = "write" /\ e.traj \in Slices
    THEN [w EXCEPT ![e.traj] = [f \in Fields |->
                                  IF f \in e.keys THEN @[f] \cup {e.row} ELSE @[f]]]
    ELSE w

RECURSIVE ApplyLog(_, _)
ApplyLog(w, log) ==
    IF log = <<>> THEN w ELSE ApplyLog(ApplyEntry(w, Head(log)), Tail(log))

\* ---------------------------------------------- BatchedVectorEnvRunner
\* mutant: the handle is read from the queue without being taken out of it
update_trajectory_buffers_peek(queue, old_slice, old_traj) ==
    IF queue = <<>>
    THEN [raised |-> TRUE, curr_traj_slice |-> old_slice, curr_traj |-> old_traj,
          queue |-> queue, log |-> <<GetEmpty>>]
    ELSE [raised |-> FALSE, curr_traj_slice |-> Head(queue), curr_traj |-> Head(queue),
          queue |-> queue, log |-> <<Get(Head(queue))>>]

\* mutant: self.curr_traj is not refreshed from the new handle
update_trajectory_buffers_stale(queue, old_slice, old_traj) ==
    IF queue = <<>>
    THEN [raised |-> TRUE, curr_traj_slice |-> old_slice, curr_traj |-> old_traj,
          queue |-> queue, log |-> <<GetEmpty>>]
    ELSE [raised |-> FALSE, curr_traj_slice |-> Head(queue),
          curr_traj |-> IF old_traj = None THEN Head(queue) ELSE old_traj,
          queue |-> Tail(queue), log |-> <<Get(Head(queue))>>]

\* mutant: a runner that already holds a slice keeps it instead of asking the queue
update_trajectory_buffers_reuse(queue, old_slice, old_traj) ==
    IF old_slice # None
    THEN [raised |-> FALSE, curr_traj_slice |-> old_slice, curr_traj |-> old_traj,
          queue |-> queue, log |-> <<>>]
    ELSE IF queue = <<>>
    THEN [raised |-> TRUE, curr_traj_slice |-> old_slice, curr_traj |-> old_traj,
          queue |-> queue, log |-> <<GetEmpty>>]
    ELSE [raised |-> FALSE, curr_traj_slice |-> Head(queue), curr_traj |-> Head(queue),
          queue |-> Tail(queue), log |-> <<Get(Head(queue))>>]

\* mutant: Empty is swallowed and the get is tried once more before giving up quietly
update_trajectory_buffers_retry(queue, old_slice, old_traj) ==
    IF queue = <<>>
    THEN [raised |-> FALSE, curr_traj_slice |-> old_slice, curr_traj |-> old_traj,
          queue |-> queue, log |-> <<GetEmpty, GetEmpty>>]
    ELSE [raised |-> FALSE, curr_traj_slice |-> Head(queue), curr_traj |-> Head(queue),
          queue |-> Tail(queue), log |-> <<Get(Head(queue))>>]

\* mutant: the runner puts the slice it held back into the queue itself
update_trajectory_buffers_putback(queue, old_slice, old_traj) ==
    IF queue = <<>>
    THEN [raised |-> TRUE, curr_traj_slice |-> old_slice, curr_traj |-> old_traj,
          queue |-> queue, log |-> <<GetEmpty>>]
    ELSE [raised |-> FALSE, curr_traj_slice |-> Head(queue), curr_traj |-> Head(queue),
          queue |-> IF old_slice = None THEN Tail(queue) ELSE Append(Tail(queue), old_slice),
          log |-> <<Get(Head(queue))>>]

\* _update_trajectory_buffers: one blocking get; Empty after the timeout becomes
\* RuntimeError, otherwise the handle becomes curr_traj_slice and curr_traj its view.
\* A get on an empty queue that is refilled during the wait is the interleaving in
\* which the release comes first.
update_trajectory_buffers(queue, old_slice, old_traj) ==
    IF queue = <<>>
    THEN [raised |-> TRUE, curr_traj_slice |-> old_slice, curr_traj |-> old_traj,
          queue |-> queue, log |-> <<GetEmpty>>]
    ELSE [raised |-> FALSE, curr_traj_slice |-> Head(queue), curr_traj |-> Head(queue),
          queue |-> Tail(queue), log |-> <<Get(Head(queue))>>]

\* mutant: the bootstrap term is added for every agent, whatever its time-out flag
process_rewards_all(rewards_orig, infos, values, c) ==
    [i \in DOMAIN rewards_orig |->
        Clamp(rewards_orig[i] * c.reward_scale, 0 - c.reward_clip, c.reward_clip)
        + (IF c.value_bootstrap /\ TimeOutsIn(infos) THEN c.gamma * values[i] ELSE 0)]

\* _process_rewards
process_rewards(rewards_orig, infos, values, c) ==
    [i \in DOMAIN rewards_orig |->
        Clamp(rewards_orig[i] * c.reward_scale, 0 - c.reward_clip, c.reward_clip)
        + (IF c.value_bootstrap /\ TimeOutsIn(infos)
           THEN c.gamma * values[i] * Float(infos.time_outs[i])
           ELSE 0)]

\* one episode report of _process_env_step
Report(reward, len, infos, agent_i, policy_id) ==
    [reward |-> reward, len |-> len,
     true_objective |-> IF infos.kind = "list" /\ infos.true_objective[agent_i] # None
                        THEN infos.true_objective[agent_i]
                        ELSE reward,
     policy_id |-> policy_id]

\* reports of the finished agents with index below n, in index order
RECURSIVE Reports(_, _, _, _, _, _)
Reports(n, reward, len, dones, infos, policy_id) ==
    IF n = 0 THEN <<>>
    ELSE LET rest == Reports(n - 1, reward, len, dones, infos, policy_id)
         IN  IF dones[n - 1]
             THEN Append(rest, Report(reward[n - 1], len[n - 1], infos, n - 1, policy_id))
             ELSE rest

\* mutant: one finished episode resets the accumulators of every agent
process_env_step_reset_all(ep_reward, ep_len, rewards_orig, dones, infos, policy_id) ==
    LET reward == [i \in DOMAIN ep_reward |-> ep_reward[i] + rewards_orig[i]]
        len == [i \in DOMAIN ep_len |-> ep_len[i] + 1]
        any == \E i \in DOMAIN dones : dones[i]
    IN  [curr_episode_reward |-> [i \in DOMAIN reward |-> IF any THEN 0 ELSE reward[i]],
         curr_episode_len |-> [i \in DOMAIN len |-> IF any THEN 0 ELSE len[i]],
         reports |-> Reports(Cardinality(DOMAIN dones), reward, len, dones, infos, policy_id)]

\* mutant: the step of a finished episode is not counted in its report
process_env_step_late_count(ep_reward, ep_len, rewards_orig, dones, infos, policy_id) ==
    LET reward == [i \in DOMAIN ep_reward |-> ep_reward[i] + rewards_orig[i]]
        len == [i \in DOMAIN ep_len |-> ep_len[i] + 1]
    IN  [curr_episode_reward |-> [i \in DOMAIN reward |-> IF dones[i] THEN 0 ELSE reward[i]],
         curr_episode_len |-> [i \in DOMAIN len |-> IF dones[i] THEN 0 ELSE len[i]],
         reports |-> Reports(Cardinality(DOMAIN dones), reward, ep_len, dones, infos, policy_id)]

\* mutant: the accumulators of a finished episode are not reset
process_env_step_no_reset(ep_reward, ep_len, rewards_orig, dones, infos, policy_id) ==
    LET reward == [i \in DOMAIN ep_reward |-> ep_reward[i] + rewards_orig[i]]
        len == [i \in DOMAIN ep_len |-> ep_len[i] + 1]
    IN  [curr_episode_reward |-> reward,
         curr_episode_len |-> len,
         reports |-> Reports(Cardinality(DOMAIN dones), reward, len, dones, infos, policy_id)]

\* _process_env_step: accumulate the rewards it is given and one step for every
\* agent, report every finished agent, then reset the finished agents
process_env_step(ep_reward, ep_len, rewards_orig, dones, infos, policy_id) ==
    LET reward == [i \in DOMAIN ep_reward |-> ep_reward[i] + rewards_orig[i]]
        len == [i \in DOMAIN ep_len |-> ep_len[i] + 1]
    IN  [curr_episode_reward |-> [i \in DOMAIN reward |-> IF dones[i] THEN 0 ELSE reward[i]],
         curr_episode_len |-> [i \in DOMAIN len |-> IF dones[i] THEN 0 ELSE len[i]],
         reports |-> Reports(Cardinality(DOMAIN dones), reward, len, dones, infos, policy_id)]

\* _finalize_trajectories: obs and rnn_states of the step after the last one go to
\* row cfg.rollout; the held handle is the one complete rollout
finalize_trajectories(traj, traj_slice, c, rnn_state) ==
    [log |-> <<WriteNext(traj, c.rollout, rnn_state)>>, complete_rollouts |-> <<traj_slice>>]

\* mutant: the step offset is not reset when the rollout is complete
next_rollout_step_no_reset(step, complete) == step

\* advance_rollouts: self.rollout_step is back at 0 after a complete rollout
next_rollout_step(step, complete) == IF complete THEN 0 ELSE step

\* mutant: the step offset is reset before the acquisition is tried
rollout_step_after_reset_first(step, complete, raised) == next_rollout_step(step, complete)

\* advance_rollouts: self.rollout_step after the call; the reset follows
\* _update_trajectory_buffers and is not reached when that raises
rollout_step_after(step, complete, raised) ==
    IF raised THEN step ELSE next_rollout_step(step, complete)

\* mutant: the recurrent state of a finished agent is carried over
next_rnn_state_keep(new_rnn_states, dones) == new_rnn_states

\* advance_rollouts: self.last_rnn_state = new_rnn_states * (1.0 - dones.float())
next_rnn_state(new_rnn_states, dones) ==
    [i \in DOMAIN dones |-> new_rnn_states[i] * (1 - Float(dones[i]))]

\* mutant: a rollout counts as complete from the first step on
rollout_complete_early(step, c) == step >= 1

\* advance_rollouts: if self.rollout_step == self.cfg.rollout
rollout_complete(step, c) == step = c.rollout

\* ------------------------------------------------------------ initial state
ZeroAgents(n) == [i \in 0..(n - 1) |-> 0]
NoEpisode(n) == [i \in 0..(n - 1) |-> [raw |-> 0, processed |-> 0, steps |-> 0]]

NoCall(n) ==
    [op |-> "none", raised |-> FALSE, queue_empty |-> FALSE,
     rewards |-> ZeroAgents(n), dones |-> [i \in 0..(n - 1) |-> FALSE],
     infos |-> [kind |-> "dict", has_time_outs |-> FALSE,
                time_outs |-> [i \in 0..(n - 1) |-> FALSE],
                true_objective |-> [i \in 0..(n - 1) |-> None]],
     values |-> ZeroAgents(n), new_rnn_states |-> ZeroAgents(n),
     processed |-> ZeroAgents(n),
     prev_reward |-> ZeroAgents(n), prev_len |-> ZeroAgents(n),
     sums |-> NoEpisode(n),
     policy_request |-> <<>>, complete_rollouts |-> <<>>, episodic_stats |-> <<>>,
     emitted_written |-> NoRows, handed_off_before |-> {}]

NoWorkerCall ==
    [op |-> "none", split_idx |-> 0, raised |-> FALSE, error |-> "",
     complete_rollouts |-> <<>>, policy_request |-> <<>>, put |-> <<>>,
     trajectories |-> <<>>, report_msg |-> <<>>, delays |-> <<>>]

\* state after the constructors (BatchedVectorEnvRunner.__init__ and
\* RolloutWorker.__init__): nothing held, rollout_step 0, no runner in env_runners,
\* num_complete_rollouts 0; the buffer queue holds every slice of the storage
InitWith(c, n, env, calls) ==
    /\ cfg = c
    /\ env_info = [num_agents |-> n]
    /\ vec_env = env
    /\ traj_buffer_queue = [k \in 1..NumSlices |-> k]
    /\ pc = [r \in RunnersOf(c) |-> "uninit"]
    /\ curr_traj_slice = [r \in RunnersOf(c) |-> None]
    /\ curr_traj = [r \in RunnersOf(c) |-> None]
    /\ rollout_step = [r \in RunnersOf(c) |-> 0]
    /\ curr_episode_reward = [r \in RunnersOf(c) |-> ZeroAgents(n)]
    /\ curr_episode_len = [r \in RunnersOf(c) |-> ZeroAgents(n)]
    /\ completed = {}
    /\ consumer = {}
    /\ written = [h \in Slices |-> NoRows]
    /\ call_log = [r \in RunnersOf(c) |-> <<>>]
    /\ last = [r \in RunnersOf(c) |-> NoCall(n)]
    /\ ncalls = [r \in RunnersOf(c) |-> 0]
    /\ ncompleted = [r \in RunnersOf(c) |-> 0]
    /\ handed_off = [r \in RunnersOf(c) |-> {}]
    /\ episode = [r \in RunnersOf(c) |-> NoEpisode(n)]
    /\ budget = calls
    /\ last_rnn_state = [r \in RunnersOf(c) |-> ZeroAgents(n)]
    /\ nacquired = [r \in RunnersOf(c) |-> 0]
    /\ env_runners = [w \in WorkersOf(c) |-> <<>>]
    /\ num_complete_rollouts = [w \in WorkersOf(c) |-> 0]
    /\ worker_pc = [w \in WorkersOf(c) |-> "new"]
    /\ inference_queues = [p \in 0..(c.num_policies - 1) |-> <<>>]
    /\ wlast = [w \in WorkersOf(c) |-> NoWorkerCall]
    /\ slept = [w \in WorkersOf(c) |-> <<>>]

\* several workers with several splits each, one agent per runner
Init ==
    \E T \in 1..MaxT :
        InitWith([rollout |-> T, reward_scale |-> 1, reward_clip |-> 2, gamma |-> 1,
                  value_bootstrap |-> FALSE, num_workers |-> NumWorkers,
                  worker_num_splits |-> NumSplits, num_policies |-> 2],
                 1,
                 [rewards |-> {[i \in {0} |-> 1]}, values |-> {[i \in {0} |-> 1]},
                  new_rnn_states |-> {[i \in {0} |-> 1]},
                  infos |-> DictInfos(1), dones |-> {FALSE}],
                 MaxCalls)

\* one runner with several agents whose episodes end at any step, within a rollout
\* or across its end; the env reports its infos as a list of dicts in which agent 0
\* carries a true_objective
InitEpisode ==
    \E T \in {MaxT} :
        InitWith([rollout |-> T, reward_scale |-> 1, reward_clip |-> 2, gamma |-> 2,
                  value_bootstrap |-> FALSE, num_workers |-> 1,
                  worker_num_splits |-> 1, num_policies |-> 2],
                 NumAgents,
                 [rewards |-> EpisodeRewards(NumAgents),
                  values |-> {[i \in 0..(NumAgents - 1) |-> 3]},
                  new_rnn_states |-> {[i \in 0..(NumAgents - 1) |-> 1]},
                  infos |-> ListInfos(NumAgents,
                                      {[i \in 0..(NumAgents - 1) |->
                                          IF i = 0 THEN 7 ELSE None]}),
                  dones |-> BOOLEAN],
                 MaxEpisodeCalls)

\* one runner with several agents, every reward setting, value estimates and
\* time-out flags of an env whose episodes do not end
InitReward ==
    \E T \in 1..MaxT, scale \in {1, 3}, bootstrap \in BOOLEAN :
        InitWith([rollout |-> T, reward_scale |-> scale, reward_clip |-> 2, gamma |-> 2,
                  value_bootstrap |-> bootstrap, num_workers |-> 1,
                  worker_num_splits |-> 1, num_policies |-> 2],
                 NumAgents,
                 [rewards |-> [0..(NumAgents - 1) -> RawRewards],
                  values |-> ValueEstimates(NumAgents),
                  new_rnn_states |-> {[i \in 0..(NumAgents - 1) |-> 1]},
                  infos |-> DictInfos(NumAgents) \cup TimeOutInfos(NumAgents)
                            \cup ListInfos(NumAgents, {[i \in 0..(NumAgents - 1) |-> None]}),
                  dones |-> {FALSE}],
                 MaxRewardCalls)

\* one runner with several agents whose episodes end at any step and a policy
\* whose updated recurrent states change from call to call
InitRnn ==
    \E T \in 1..MaxT :
        InitWith([rollout |-> T, reward_scale |-> 1, reward_clip |-> 2, gamma |-> 1,
                  value_bootstrap |-> FALSE, num_workers |-> 1,
                  worker_num_splits |-> 1, num_policies |-> 2],
                 NumAgents,
                 [rewards |-> {[i \in 0..(NumAgents - 1) |-> 1]},
                  values |-> {[i \in 0..(NumAgents - 1) |-> 1]},
                  new_rnn_states |-> RnnStates(NumAgents),
                  infos |-> DictInfos(NumAgents),
                  dones |-> BOOLEAN],
                 MaxRnnCalls)

\* several workers with several splits each, one agent per runner, with and
\* without cfg.benchmark; the env reports its infos as a list of dicts in which
\* the agent is active or inactive
InitWorker ==
    \E T \in 1..MaxT, benchmark \in BOOLEAN :
        InitWith([rollout |-> T, reward_scale |-> 1, reward_clip |-> 2, gamma |-> 1,
                  value_bootstrap |-> FALSE, num_workers |-> NumWorkers,
                  worker_num_splits |-> NumSplits, num_policies |-> 2,
                  benchmark |-> benchmark,
                  decorrelate_experience_max_seconds |-> 10 * NumWorkers],
                 1,
                 [rewards |-> {[i \in {0} |-> 1]}, values |-> {[i \in {0} |-> 1]},
                  new_rnn_states |-> {[i \in {0} |-> 1]},
                  infos |-> ActivityInfos(1),
                  dones |-> BOOLEAN],
                 MaxWorkerCalls)

\* ------------------------------------------------------------------ actions
\* successful gets of a call
Gets(log) == Cardinality({k \in 1..Len(log) : log[k].op = "get"})

\* A runner is built with all nine constructor arguments, initialised and appended
\* to its worker's env_runners, split after split as the loop of RolloutWorker.init
\* is written to do.
\* BatchedVectorEnvRunner.init: reset the envs, zero the recurrent state and the
\* accumulators, take the first slice from the queue
RunnerInit(r) ==
    /\ r \in Runners
    /\ pc[r] = "uninit"
    /\ r[2] = Len(env_runners[r[1]])
    /\ LET upd == update_trajectory_buffers(traj_buffer_queue, curr_traj_slice[r], curr_traj[r])
       IN  /\ last_rnn_state' = [last_rnn_state EXCEPT ![r] = ZeroAgents(env_info.num_agents)]
           /\ curr_episode_reward' = [curr_episode_reward EXCEPT ![r] = ZeroAgents(env_info.num_agents)]
           /\ curr_episode_len' = [curr_episode_len EXCEPT ![r] = ZeroAgents(env_info.num_agents)]
           /\ traj_buffer_queue' = upd.queue
           /\ curr_traj_slice' = [curr_traj_slice EXCEPT ![r] = upd.curr_traj_slice]
           /\ curr_traj' = [curr_traj EXCEPT ![r] = upd.curr_traj]
           /\ pc' = [pc EXCEPT ![r] = IF upd.raised THEN "failed" ELSE "ready"]
           /\ written' = ApplyLog(written, upd.log)
           /\ call_log' = [call_log EXCEPT ![r] = upd.log]
           /\ nacquired' = [nacquired EXCEPT ![r] = @ + Gets(upd.log)]
           /\ last' = [last EXCEPT ![r] = [NoCall(env_info.num_agents) EXCEPT
                                             !.op = "init", !.raised = upd.raised,
                                             !.queue_empty = (traj_buffer_queue = <<>>),
                                             !.handed_off_before = handed_off[r]]]
           /\ handed_off' = [handed_off EXCEPT ![r] = @ \ {upd.curr_traj_slice}]
           /\ env_runners' = [env_runners EXCEPT ![r[1]] =
                                 IF upd.raised THEN @ ELSE Append(@, r[2])]
    /\ budget > 0
    /\ budget' = budget - 1
    /\ UNCHANGED <<cfg, env_info, vec_env, rollout_step, completed, consumer, ncalls,
                   ncompleted, episode, num_complete_rollouts, worker_pc,
                   inference_queues, wlast, slept>>

\* BatchedVectorEnvRunner.advance_rollouts with the policy outputs `values` and
\* `new_rnn_states` and the env step result (rewards, dones, infos)
AdvanceWith(r, rewards, dones, infos, values, new_rnn_states) ==
    LET row == rollout_step[r]
        traj == curr_traj[r]
        processed_rewards == process_rewards(rewards, infos, values, cfg)
        rnn_state == next_rnn_state(new_rnn_states, dones)
        stats == process_env_step(curr_episode_reward[r], curr_episode_len[r],
                                  rewards, dones, infos, PolicyIdOf(r))
        step == row + 1
        complete == rollout_complete(step, cfg)
        fin == IF complete
               THEN finalize_trajectories(traj, curr_traj_slice[r], cfg, rnn_state)
               ELSE [log |-> <<>>, complete_rollouts |-> <<>>]
        upd == IF complete
               THEN update_trajectory_buffers(traj_buffer_queue, curr_traj_slice[r], traj)
               ELSE [raised |-> FALSE, curr_traj_slice |-> curr_traj_slice[r],
                     curr_traj |-> traj, queue |-> traj_buffer_queue, log |-> <<>>]
        new_step == rollout_step_after(step, complete, upd.raised)
        head_log == <<Write(traj, row, PolicyOutputKeys), Write(traj, row, EnvStepKeys)>>
                    \o fin.log
        log == head_log \o upd.log
               \o (IF upd.raised THEN <<>>
                   ELSE <<WriteNext(upd.curr_traj, new_step, rnn_state)>>)
        sums == [i \in Agents |->
                   [raw |-> episode[r][i].raw + rewards[i],
                    processed |-> episode[r][i].processed + processed_rewards[i],
                    steps |-> episode[r][i].steps + 1]]
        emitted == {fin.complete_rollouts[k] : k \in 1..Len(fin.complete_rollouts)}
    IN  /\ last_rnn_state' = [last_rnn_state EXCEPT ![r] = rnn_state]
        /\ curr_episode_reward' = [curr_episode_reward EXCEPT ![r] = stats.curr_episode_reward]
        /\ curr_episode_len' = [curr_episode_len EXCEPT ![r] = stats.curr_episode_len]
        /\ rollout_step' = [rollout_step EXCEPT ![r] = new_step]
        /\ traj_buffer_queue' = upd.queue
        /\ curr_traj_slice' = [curr_traj_slice EXCEPT ![r] = upd.curr_traj_slice]
        /\ curr_traj' = [curr_traj EXCEPT ![r] = upd.curr_traj]
        /\ pc' = [pc EXCEPT ![r] = IF upd.raised THEN "failed" ELSE "ready"]
        /\ written' = ApplyLog(written, log)
        /\ call_log' = [call_log EXCEPT ![r] = log]
        /\ nacquired' = [nacquired EXCEPT ![r] = @ + Gets(log)]
        /\ ncalls' = [ncalls EXCEPT ![r] = IF upd.raised THEN @ ELSE @ + 1]
        /\ ncompleted' = [ncompleted EXCEPT ![r] =
                             IF upd.raised THEN @ ELSE @ + Len(fin.complete_rollouts)]
        /\ handed_off' = [handed_off EXCEPT ![r] =
                             IF upd.raised THEN @
                             ELSE IF complete THEN (@ \cup emitted) \ {upd.curr_traj_slice}
                             ELSE @]
        /\ episode' = [episode EXCEPT ![r] =
                          [i \in Agents |-> IF dones[i]
                                            THEN [raw |-> 0, processed |-> 0, steps |-> 0]
                                            ELSE sums[i]]]
        /\ last' = [last EXCEPT ![r] =
                      [op |-> "advance", raised |-> upd.raised,
                       queue_empty |-> (complete /\ traj_buffer_queue = <<>>),
                       rewards |-> rewards, dones |-> dones, infos |-> infos,
                       values |-> values, new_rnn_states |-> new_rnn_states,
                       processed |-> processed_rewards,
                       prev_reward |-> curr_episode_reward[r],
                       prev_len |-> curr_episode_len[r],
                       sums |-> sums,
                       policy_request |-> IF upd.raised THEN <<>>
                                          ELSE <<upd.curr_traj_slice, new_step>>,
                       complete_rollouts |-> IF upd.raised THEN <<>>
                                             ELSE fin.complete_rollouts,
                       episodic_stats |-> IF upd.raised THEN <<>> ELSE stats.reports,
                       emitted_written |-> IF complete /\ ~upd.raised
                                           THEN ApplyLog(written, head_log)[traj]
                                           ELSE NoRows,
                       handed_off_before |-> handed_off[r]]]

\* a caller of the runner that passes the complete rollouts it gets on to the consumer
Advance(r) ==
    /\ r \in Runners
    /\ pc[r] = "ready"
    /\ budget > 0
    /\ budget' = budget - 1
    /\ \E rewards \in vec_env.rewards, dones \in [Agents -> vec_env.dones],
          infos \in vec_env.infos, values \in vec_env.values,
          new_rnn_states \in vec_env.new_rnn_states :
            AdvanceWith(r, rewards, dones, infos, values, new_rnn_states)
    /\ completed' = completed \cup {last'[r].complete_rollouts[k] :
                                       k \in 1..Len(last'[r].complete_rollouts)}
    /\ UNCHANGED <<cfg, env_info, vec_env, consumer, worker_vars>>

\* the caller passes the complete rollouts on; the consumer receives one
ConsumerReceive(h) ==
    /\ h \in completed
    /\ completed' = completed \ {h}
    /\ consumer' = consumer \cup {h}
    /\ UNCHANGED <<cfg, env_info, vec_env, traj_buffer_queue, pc, curr_traj_slice, curr_traj,
                   rollout_step, curr_episode_reward, curr_episode_len, written, call_log,
                   last, ncalls, ncompleted, handed_off, episode, budget, last_rnn_state,
                   nacquired, worker_vars>>

\* the consumer is done with a slice it received and puts it back into the queue
ConsumerRelease(h) ==
    /\ h \in consumer
    /\ consumer' = consumer \ {h}
    /\ traj_buffer_queue' = Append(traj_buffer_queue, h)
    /\ UNCHANGED <<cfg, env_info, vec_env, pc, curr_traj_slice, curr_traj, rollout_step,
                   curr_episode_reward, curr_episode_len, completed, written, call_log,
                   last, ncalls, ncompleted, handed_off, episode, budget, last_rnn_state,
                   nacquired, worker_vars>>

Next ==
    \/ \E r \in RunnerIds : RunnerInit(r)
    \/ \E r \in RunnerIds : Advance(r)
    \/ \E h \in Slices : ConsumerReceive(h)
    \/ \E h \in Slices : ConsumerRelease(h)

Spec == Init /\ [][Next]_vars
SpecEpisode == InitEpisode /\ [][Next]_vars
SpecReward == InitReward /\ [][Next]_vars
SpecRnn == InitRnn /\ [][Next]_vars

\* ---------------------------------------------------------- RolloutWorker
\* parameters of BatchedVectorEnvRunner.__init__ after self, none with a default
RunnerCtorParams == 9
\* arguments RolloutWorker.init passes to BatchedVectorEnvRunner
WorkerInitCtorArgs == 8

\* a call with positional arguments of a function whose parameters are all required
call_raises(given, required) == given # required

\* RolloutWorker.init: env_runners becomes the empty list, then the constructor
\* call of the first split raises TypeError (one argument is missing), so no runner
\* is built, initialised or appended
WorkerInit(w) ==
    /\ w \in Workers
    /\ worker_pc[w] = "new"
    /\ call_raises(WorkerInitCtorArgs, RunnerCtorParams)
    /\ budget > 0
    /\ budget' = budget - 1
    /\ env_runners' = [env_runners EXCEPT ![w] = <<>>]
    /\ worker_pc' = [worker_pc EXCEPT ![w] = "failed"]
    /\ wlast' = [wlast EXCEPT ![w] = [NoWorkerCall EXCEPT !.op = "init", !.raised = TRUE,
                                                          !.error = "TypeError"]]
    /\ UNCHANGED <<cfg, env_info, vec_env, traj_buffer_queue, pc, curr_traj_slice, curr_traj,
                   rollout_step, curr_episode_reward, curr_episode_len, completed, consumer,
                   written, call_log, last, ncalls, ncompleted, handed_off, episode,
                   last_rnn_state, nacquired, num_complete_rollouts, inference_queues,
                   slept>>

\* mutant: every request is dispatched to the first runner of the worker
env_runner_first(w, split_idx) == <<w, env_runners[w][1]>>

\* advance_rollouts: runner = self.env_runners[split_idx]
env_runner(w, split_idx) == <<w, env_runners[w][split_idx + 1]>>

\* _enqueue_complete_rollouts: rollout['policy_id'] subscripts the slice handle
\* _finalize_trajectories returned, which raises TypeError for the first rollout
\* of the list; nothing is emitted
enqueue_complete_rollouts(complete_rollouts) ==
    IF complete_rollouts = <<>>
    THEN [raised |-> FALSE, trajectories |-> <<>>]
    ELSE [raised |-> TRUE, trajectories |-> <<>>]

\* _enqueue_policy_request: one request per policy id of policy_inputs is put on
\* that policy's queue; nothing is put for an empty policy_inputs
enqueue_policy_request(queues, worker_idx, split_idx, policy_inputs) ==
    [p \in DOMAIN queues |->
        IF p \in DOMAIN policy_inputs
        THEN Append(queues[p], <<worker_idx, split_idx, policy_inputs[p]>>)
        ELSE queues[p]]

\* the requests one call puts, with the policy id of the queue of each
policy_requests_put(worker_idx, split_idx, policy_inputs) ==
    IF DOMAIN policy_inputs = {} THEN <<>>
    ELSE LET p == CHOOSE q \in DOMAIN policy_inputs : TRUE
         IN  <<[policy_id |-> p, request |-> <<worker_idx, split_idx, policy_inputs[p]>>]>>

\* _decorrelate_experience: (worker_idx / num_workers) * decorrelate_experience_max_seconds
decorrelate_experience(worker_idx, c) ==
    (worker_idx * c.decorrelate_experience_max_seconds) \div c.num_workers

\* slice handles of the emitted batches
Handles(batches) ==
    UNION {{batches[k].rollouts[j] : j \in 1..Len(batches[k].rollouts)} :
             k \in 1..Len(batches)}

\* RolloutWorker.advance_rollouts for data['split_idx'] = split_idx: the runner's
\* advance_rollouts, then _enqueue_complete_rollouts, the decorrelation delay and
\* the counter, _enqueue_policy_request and report_msg.  An exception of the runner
\* or of _enqueue_complete_rollouts leaves the call at that point.
WorkerAdvance(w, split_idx) ==
    /\ w \in Workers
    /\ worker_pc[w] = "new"
    /\ split_idx \in SplitIds
    /\ split_idx < Len(env_runners[w])
    /\ pc[env_runner(w, split_idx)] = "ready"
    /\ budget > 0
    /\ budget' = budget - 1
    /\ \E rewards \in vec_env.rewards, dones \in [Agents -> vec_env.dones],
          infos \in vec_env.infos, values \in vec_env.values,
          new_rnn_states \in vec_env.new_rnn_states :
            AdvanceWith(env_runner(w, split_idx), rewards, dones, infos, values,
                        new_rnn_states)
    /\ LET runner == env_runner(w, split_idx)
           ret == last'[runner]
           complete_rollouts == ret.complete_rollouts
           policy_request == IF ret.raised THEN <<>>
                             ELSE [p \in {PolicyIdOf(runner)} |-> ret.policy_request]
           enq == IF ~ret.raised /\ complete_rollouts # <<>>
                  THEN enqueue_complete_rollouts(complete_rollouts)
                  ELSE [raised |-> FALSE, trajectories |-> <<>>]
           raised == ret.raised \/ enq.raised
           delays == IF ~raised /\ complete_rollouts # <<>>
                        /\ num_complete_rollouts[w] = 0 /\ ~cfg.benchmark
                     THEN <<decorrelate_experience(w, cfg)>>
                     ELSE <<>>
           put == IF raised THEN <<>> ELSE policy_requests_put(w, split_idx, policy_request)
       IN  /\ worker_pc' = [worker_pc EXCEPT ![w] = IF raised THEN "failed" ELSE @]
           /\ completed' = completed \cup Handles(enq.trajectories)
           /\ slept' = [slept EXCEPT ![w] = @ \o delays]
           /\ num_complete_rollouts' =
                 [num_complete_rollouts EXCEPT ![w] =
                     IF raised THEN @ ELSE @ + Len(complete_rollouts)]
           /\ inference_queues' =
                 IF raised THEN inference_queues
                 ELSE enqueue_policy_request(inference_queues, w, split_idx, policy_request)
           /\ wlast' = [wlast EXCEPT ![w] =
                          [op |-> "advance", split_idx |-> split_idx, raised |-> raised,
                           error |-> IF ret.raised THEN "RuntimeError"
                                     ELSE IF enq.raised THEN "TypeError" ELSE "",
                           complete_rollouts |-> complete_rollouts,
                           policy_request |-> policy_request,
                           put |-> put,
                           trajectories |-> enq.trajectories,
                           report_msg |-> IF ~raised /\ ret.episodic_stats # <<>>
                                          THEN <<ret.episodic_stats>> ELSE <<>>,
                           delays |-> delays]]
    /\ UNCHANGED <<cfg, env_info, vec_env, consumer, env_runners>>

NextWorker ==
    \/ \E w \in WorkerIds : WorkerInit(w)
    \/ \E r \in RunnerIds : RunnerInit(r)
    \/ \E w \in WorkerIds, split_idx \in SplitIds : WorkerAdvance(w, split_idx)

SpecWorker == InitWorker /\ [][NextWorker]_vars

\* ------------------------------------------------------------------ claims
Returned(r) == last[r].op = "advance" /\ ~last[r].raised
Range(seq) == {seq[k] : k \in 1..Len(seq)}
DoneAgents(r) == {i \in Agents : last[r].dones[i]}
\* position of agent i's report among the reports of one call (index order)
ReportIndex(r, i) == Cardinality({j \in DoneAgents(r) : j <= i})

\* C1: counting the advance calls of a runner that returned, the k-th call returns
\* exactly one complete rollout when k is a multiple of cfg.rollout and none
\* otherwise, so k calls have produced k div cfg.rollout complete rollouts.
C1_OneRolloutEveryTCalls ==
    \A r \in Runners :
        /\ ncompleted[r] = ncalls[r] \div cfg.rollout
        /\ Returned(r) =>
              Len(last[r].complete_rollouts)
                 = (IF ncalls[r] % cfg.rollout = 0 THEN 1 ELSE 0)

C1_Witness ==
    \E r \in Runners :
        /\ cfg.rollout = 2 /\ ncalls[r] = 4 /\ ncompleted[r] = 2
        /\ Len(last[r].complete_rollouts) = 1

\* C2: every slice a runner returns as a complete rollout has had, while the
\* runner held it, obs and rnn_states written in rows 0..T and every other field
\* in exactly rows 0..T-1.
C2_EmittedSliceFullyWritten ==
    \A r \in Runners :
        (Returned(r) /\ last[r].complete_rollouts # <<>>) =>
            \A f \in Fields :
                last[r].emitted_written[f]
                   = (IF f \in NextStepKeys THEN 0..cfg.rollout ELSE 0..(cfg.rollout - 1))

\* C3: no slice is held for writing by two runners at once.
C3_SingleWriter ==
    \A r1 \in Runners, r2 \in Runners :
        (r1 # r2 /\ curr_traj[r1] # None) =>
            /\ curr_traj[r1] # curr_traj[r2]
            /\ curr_traj_slice[r1] # curr_traj_slice[r2]

\* two runners of sibling workers hold slices, one of them a slice the other
\* completed and the consumer released
C3_Witness ==
    \E r1 \in Runners, r2 \in Runners :
        /\ r1[1] # r2[1]
        /\ pc[r1] = "ready" /\ pc[r2] = "ready"
        /\ ncompleted[r1] >= 1
        /\ curr_traj[r2] \in handed_off[r1]

\* C4: a runner does not write into a slice it has returned as a complete rollout
\* until it gets the same handle from the queue again; the writes of a call that
\* follow its get go to the slice that get returned.
C4_NoWriteAfterHandOff ==
    \A r \in Runners :
        /\ pc[r] = "ready" => curr_traj[r] \notin handed_off[r]
        /\ \A k \in 1..Len(call_log[r]) :
              call_log[r][k].op = "write" =>
                  LET gets == {j \in 1..(k - 1) : call_log[r][j].op = "get"}
                  IN  IF gets = {}
                      THEN call_log[r][k].traj \notin last[r].handed_off_before
                      ELSE /\ call_log[r][k].traj \notin handed_off[r]
                           /\ \A j \in gets : call_log[r][k].traj = call_log[r][j].traj

C4_Witness ==
    \E r \in Runners :
        /\ ncompleted[r] >= 2
        /\ handed_off[r] # {}
        /\ \E k \in 2..Len(call_log[r]) :
              call_log[r][k].op = "write" /\ call_log[r][k - 1].op = "get"

\* C5: the handle acquired when a rollout completes differs from the handle of
\* the rollout just completed, and a runner never holds a handle that is on its
\* way to the consumer or with the consumer.
C5_FreshHandleAfterRollout ==
    \A r \in Runners :
        /\ (Returned(r) /\ last[r].complete_rollouts # <<>>) =>
              /\ last[r].policy_request[1] \notin Range(last[r].complete_rollouts)
              /\ curr_traj_slice[r] \notin Range(last[r].complete_rollouts)
        /\ curr_traj_slice[r] \notin (completed \cup consumer)

\* a runner completes a rollout and gets back a handle it had completed before
C5_Witness ==
    \E r \in Runners :
        /\ Returned(r) /\ last[r].complete_rollouts # <<>>
        /\ ncompleted[r] >= 3
        /\ Cardinality(handed_off[r]) = 2

\* C6: an acquisition that finds the queue empty raises: the call makes one get,
\* returns nothing and leaves the runner without a fresh slice; nothing else raises.
C6_EmptyQueueRaisesOnce ==
    \A r \in Runners :
        /\ last[r].queue_empty =>
              /\ last[r].raised
              /\ pc[r] = "failed"
              /\ last[r].policy_request = <<>>
              /\ last[r].complete_rollouts = <<>>
              /\ Cardinality({k \in 1..Len(call_log[r]) :
                                 call_log[r][k].op \in {"get", "empty"}}) = 1
        /\ last[r].raised => last[r].queue_empty

\* one runner failed in init and another at the rollout horizon
C6_Witness ==
    \E r1 \in Runners, r2 \in Runners :
        /\ last[r1].op = "init" /\ last[r1].raised
        /\ last[r2].op = "advance" /\ last[r2].raised
        /\ rollout_step[r2] = cfg.rollout

\* C7 as stated: the report of a finished agent carries the number of steps since
\* its last reset and the sum of its processed rewards over those steps, and the
\* accumulator of every agent is the sum of its processed rewards since its reset.
C7_ReportSumsProcessedRewards ==
    \A r \in Runners :
        /\ Returned(r) =>
              \A i \in DoneAgents(r) :
                  /\ last[r].episodic_stats[ReportIndex(r, i)].len = last[r].sums[i].steps
                  /\ last[r].episodic_stats[ReportIndex(r, i)].reward
                        = last[r].sums[i].processed
        /\ \A i \in Agents : curr_episode_reward[r][i] = episode[r][i].processed

\* C7 amended: the report of a finished agent carries the number of steps since
\* its last reset, the done step included, and the sum of its raw env rewards over
\* those steps; every agent's accumulator is the raw sum and step count since its
\* last reset, so an agent that never finished carries the sum over all steps.
C7_ReportSumsRawRewards ==
    \A r \in Runners :
        /\ Returned(r) =>
              /\ Len(last[r].episodic_stats) = Cardinality(DoneAgents(r))
              /\ \A i \in DoneAgents(r) :
                    /\ last[r].episodic_stats[ReportIndex(r, i)].len = last[r].sums[i].steps
                    /\ last[r].episodic_stats[ReportIndex(r, i)].reward = last[r].sums[i].raw
        /\ \A i \in Agents :
              /\ curr_episode_reward[r][i] = episode[r][i].raw
              /\ curr_episode_len[r][i] = episode[r][i].steps

\* an agent finishes an episode of three steps whose raw and processed sums differ
\* while another agent has never finished
C7_Witness ==
    \E r \in Runners : \E i \in Agents, j \in Agents :
        /\ Returned(r) /\ last[r].dones[i]
        /\ last[r].sums[i].steps = 3
        /\ last[r].sums[i].raw # last[r].sums[i].processed
        /\ ~last[r].dones[j] /\ episode[r][j].steps = ncalls[r]

\* C8 as stated: the accumulator is (0,0) after a call exactly when the agent's
\* done flag was true in it, and otherwise neither component has decreased.
C8_ResetAndNonDecreasing ==
    \A r \in Runners :
        last[r].op = "advance" =>
            \A i \in Agents :
                /\ (curr_episode_reward[r][i] = 0 /\ curr_episode_len[r][i] = 0)
                      <=> last[r].dones[i]
                /\ ~last[r].dones[i] =>
                      /\ curr_episode_reward[r][i] >= last[r].prev_reward[i]
                      /\ curr_episode_len[r][i] >= last[r].prev_len[i]

\* C8 amended: the accumulator is (0,0) after a call exactly when the agent's done
\* flag was true in it; otherwise the length has grown by one and the reward has
\* changed by the step's raw reward, so it has not decreased when that reward is
\* not negative.
C8_ResetAndAccumulate ==
    \A r \in Runners :
        last[r].op = "advance" =>
            \A i \in Agents :
                /\ (curr_episode_reward[r][i] = 0 /\ curr_episode_len[r][i] = 0)
                      <=> last[r].dones[i]
                /\ ~last[r].dones[i] =>
                      /\ curr_episode_len[r][i] = last[r].prev_len[i] + 1
                      /\ curr_episode_reward[r][i]
                            = last[r].prev_reward[i] + last[r].rewards[i]
                      /\ last[r].rewards[i] >= 0 =>
                            curr_episode_reward[r][i] >= last[r].prev_reward[i]

\* in the middle of an episode one agent gets a negative reward, another finishes
C8_Witness ==
    \E r \in Runners : \E i \in Agents, j \in Agents :
        /\ last[r].op = "advance"
        /\ ~last[r].dones[i] /\ last[r].prev_len[i] >= 1 /\ last[r].rewards[i] < 0
        /\ last[r].dones[j] /\ last[r].prev_len[j] >= 1

\* C9: a call in which the agents of D are done returns |D| reports, the report of
\* each agent of D built from that agent's accumulator; afterwards the
\* accumulators of D are (0,0) and those of the other agents are not reset.
C9_AllFinishedReportedAndReset ==
    \A r \in Runners :
        last[r].op = "advance" =>
            /\ ~last[r].raised =>
                  /\ Len(last[r].episodic_stats) = Cardinality(DoneAgents(r))
                  /\ \A i \in DoneAgents(r) :
                        LET rep == last[r].episodic_stats[ReportIndex(r, i)]
                        IN  /\ rep.reward = last[r].prev_reward[i] + last[r].rewards[i]
                            /\ rep.len = last[r].prev_len[i] + 1
                            /\ rep.policy_id = PolicyIdOf(r)
            /\ \A i \in Agents :
                  IF last[r].dones[i]
                  THEN curr_episode_reward[r][i] = 0 /\ curr_episode_len[r][i] = 0
                  ELSE /\ curr_episode_len[r][i] = last[r].prev_len[i] + 1
                       /\ curr_episode_reward[r][i]
                             = last[r].prev_reward[i] + last[r].rewards[i]

\* two agents with different accumulators finish in the same call
C9_Witness ==
    \E r \in Runners :
        /\ Returned(r)
        /\ Cardinality(DoneAgents(r)) >= 2
        /\ Len(last[r].episodic_stats) >= 2
        /\ \E i \in DoneAgents(r), j \in DoneAgents(r) :
              /\ last[r].prev_len[i] # last[r].prev_len[j]
              /\ last[r].prev_reward[i] # last[r].prev_reward[j]

\* C10: with value_bootstrap the processed reward of an agent whose time-out flag
\* is true is clamp(raw * reward_scale, -reward_clip, reward_clip) + gamma * value;
\* with the flag false or absent, or with value_bootstrap off, it is the clamped
\* scaled reward alone.
C10_BootstrapOnlyOnTimeOut ==
    \A r \in Runners :
        last[r].op = "advance" =>
            \A i \in Agents :
                LET clamped == Clamp(last[r].rewards[i] * cfg.reward_scale,
                                     0 - cfg.reward_clip, cfg.reward_clip)
                    flag == last[r].infos.has_time_outs /\ last[r].infos.time_outs[i]
                IN  last[r].processed[i]
                       = (IF cfg.value_bootstrap /\ flag
                          THEN clamped + cfg.gamma * last[r].values[i]
                          ELSE clamped)

\* with value_bootstrap on, one agent timed out on a clamped reward and another,
\* with another value estimate, did not time out
C10_Witness ==
    \E r \in Runners : \E i \in Agents, j \in Agents :
        /\ last[r].op = "advance" /\ cfg.value_bootstrap
        /\ last[r].infos.has_time_outs
        /\ last[r].infos.time_outs[i] /\ ~last[r].infos.time_outs[j]
        /\ last[r].rewards[i] * cfg.reward_scale < 0 - cfg.reward_clip
        /\ last[r].processed[i] = cfg.gamma * last[r].values[i] - cfg.reward_clip
        /\ last[r].values[j] # last[r].values[i]

\* C11: taking the bootstrap addition away from the processed reward of any agent
\* in any call leaves a value in [-reward_clip, reward_clip], whatever the raw
\* reward and the scale.
C11_ClampedBeforeBootstrap ==
    \A r \in Runners :
        last[r].op = "advance" =>
            \A i \in Agents :
                LET bootstrap == IF cfg.value_bootstrap /\ TimeOutsIn(last[r].infos)
                                 THEN cfg.gamma * last[r].values[i]
                                      * Float(last[r].infos.time_outs[i])
                                 ELSE 0
                    clamped == last[r].processed[i] - bootstrap
                IN  /\ clamped >= 0 - cfg.reward_clip
                    /\ clamped <= cfg.reward_clip

\* in one call the scaled reward of one agent is above the range and that of
\* another below it, and the bootstrap takes the processed reward out of the range
C11_Witness ==
    \E r \in Runners : \E i \in Agents, j \in Agents :
        /\ last[r].op = "advance"
        /\ last[r].rewards[i] * cfg.reward_scale > cfg.reward_clip
        /\ last[r].rewards[j] * cfg.reward_scale < 0 - cfg.reward_clip
        /\ last[r].rewards[j] < 0
        /\ last[r].processed[i] > cfg.reward_clip

\* C12: with cfg.benchmark off a worker has slept exactly once, for
\* worker_idx / num_workers * decorrelate_experience_max_seconds, from the call on
\* in which one of its runners completed the worker's first rollout, and has not
\* slept before it; with cfg.benchmark on it never sleeps.
C12_DelaysOnceOnFirstRollout ==
    \A w \in Workers :
        LET first_done == \E split_idx \in SplitIds :
                             /\ <<w, split_idx>> \in Runners
                             /\ ncompleted[<<w, split_idx>>] >= 1
        IN  slept[w] = (IF first_done /\ ~cfg.benchmark
                        THEN <<decorrelate_experience(w, cfg)>>
                        ELSE <<>>)

\* C13: a worker advance call whose env step reported no active agent has an
\* empty request set, puts no request on any inference queue and returns without
\* error; every call with a non-empty request set puts one request per policy id
\* of the set on that policy's queue.
C13_NoRequestWithoutActiveAgents ==
    \A w \in Workers :
        wlast[w].op = "advance" =>
            LET runner == <<w, wlast[w].split_idx>>
                active == {i \in Agents : last[runner].infos.is_active[i]}
                request == wlast[w].policy_request
            IN  /\ active = {} =>
                      /\ ~wlast[w].raised
                      /\ DOMAIN request = {}
                      /\ wlast[w].put = <<>>
                /\ DOMAIN request # {} =>
                      /\ Len(wlast[w].put) = Cardinality(DOMAIN request)
                      /\ \A p \in DOMAIN request :
                            \E k \in 1..Len(wlast[w].put) :
                                /\ wlast[w].put[k]
                                      = [policy_id |-> p,
                                         request |-> <<w, wlast[w].split_idx, request[p]>>]
                                /\ inference_queues[p] # <<>>

\* C14: an advance call given auxiliary info in a form the runner cannot read
\* what it needs from raises: a list of per-agent dicts while value_bootstrap is on
\* (the time-out flags are only read from a dict of tensors), or a dict of tensors
\* while an agent finishes its episode (true_objective is only read from a list).
C14_UnhandledInfosRaise ==
    \A r \in Runners :
        last[r].op = "advance" =>
            LET no_time_outs == cfg.value_bootstrap /\ last[r].infos.kind = "list"
                no_objective == last[r].infos.kind = "dict" /\ DoneAgents(r) # {}
            IN  (no_time_outs \/ no_objective) => last[r].raised

\* C15: after every advance call the recurrent state the runner carries is, per
\* agent, zero if the agent was done in the call and the policy's updated
\* recurrent state otherwise; every rnn_states write of the call writes that
\* value: the one into the row of the next step, and when the rollout completes
\* the one into row T of the completed slice and the one into row 0 of the slice
\* just acquired.
C15_RnnStateResetAndWritten ==
    \A r \in Runners :
        last[r].op = "advance" =>
            /\ \A i \in Agents :
                  last_rnn_state[r][i]
                     = (IF last[r].dones[i] THEN 0 ELSE last[r].new_rnn_states[i])
            /\ \A k \in 1..Len(call_log[r]) :
                  (call_log[r][k].op = "write" /\ "rnn_states" \in call_log[r][k].keys) =>
                      call_log[r][k].rnn_states = last_rnn_state[r]
            /\ ~last[r].raised =>
                  \E k \in 1..Len(call_log[r]) :
                      call_log[r][k]
                         = WriteNext(curr_traj[r], rollout_step[r], last_rnn_state[r])
            /\ last[r].complete_rollouts # <<>> =>
                  /\ rollout_step[r] = 0
                  /\ curr_traj[r] # last[r].complete_rollouts[1]
                  /\ \E k \in 1..Len(call_log[r]) :
                        call_log[r][k]
                           = WriteNext(last[r].complete_rollouts[1], cfg.rollout,
                                       last_rnn_state[r])

\* a rollout of two steps completes in a call in which one agent is done and
\* another, whose updated recurrent state differs from the first one's, is not
C15_Witness ==
    \E r \in Runners : \E i \in Agents, j \in Agents :
        /\ cfg.rollout = 2
        /\ last[r].op = "advance" /\ last[r].complete_rollouts # <<>>
        /\ last[r].dones[i] /\ ~last[r].dones[j]
        /\ last[r].new_rnn_states[i] # last[r].new_rnn_states[j]
        /\ last_rnn_state[r][i] = 0 /\ last_rnn_state[r][j] # 0

\* C16: a worker advance call whose runner returned completed slice handles
\* returns having emitted exactly one batch, for the runner's policy id, that holds
\* exactly those handles; a call without a completed slice emits no batch.
C16_OneBatchPerPolicy ==
    \A w \in Workers :
        wlast[w].op = "advance" =>
            IF wlast[w].complete_rollouts # <<>>
            THEN /\ ~wlast[w].raised
                 /\ wlast[w].trajectories
                       = <<[policy_id |-> PolicyIdOf(<<w, wlast[w].split_idx>>),
                            rollouts |-> wlast[w].complete_rollouts]>>
            ELSE wlast[w].trajectories = <<>>

\* C17: a runner has taken no slice before init, one in init, and one more in
\* each advance call that reached the rollout horizon, 1 + k div T after k advance
\* calls that returned; a call that did not reach the horizon takes none.  No
\* step of a runner adds a slice to the queue: whatever enters the queue was with
\* the consumer, and the queue grows only by a release of the consumer.
C17_AcquireOncePerRollout ==
    /\ [](\A r \in Runners :
             /\ pc[r] = "uninit" => nacquired[r] = 0
             /\ (last[r].op = "init" /\ ~last[r].raised) =>
                   /\ Gets(call_log[r]) = 1
                   /\ nacquired[r] = 1
             /\ last[r].op = "advance" =>
                   nacquired[r] = 1 + (ncalls[r] \div cfg.rollout)
             /\ Returned(r) =>
                   Gets(call_log[r]) = (IF ncalls[r] % cfg.rollout = 0 THEN 1 ELSE 0))
    /\ [][/\ Range(traj_buffer_queue') \ Range(traj_buffer_queue) \subseteq consumer
          /\ Len(traj_buffer_queue') > Len(traj_buffer_queue) =>
                \E h \in Slices : ConsumerRelease(h)]_vars

\* a runner with rollouts of two steps has returned from four advance calls and
\* holds its third slice, taken from a queue the consumer had released a slice into
C17_Witness ==
    \E r \in Runners :
        /\ cfg.rollout = 2 /\ ncalls[r] = 4 /\ nacquired[r] = 3
        /\ Returned(r) /\ Gets(call_log[r]) = 1
        /\ consumer = {} /\ completed # {}
        /\ traj_buffer_queue # <<>>

\* C18: after a worker's init it has not raised and owns one runner per split;
\* each runner holds one slice, different from the slices of the others, at step
\* offset 0, with every episode accumulator (0,0) and an all-zero recurrent state.
C18_WorkerInitBuildsRunners ==
    \A w \in Workers :
        wlast[w].op = "init" =>
            /\ ~wlast[w].raised
            /\ Len(env_runners[w]) = cfg.worker_num_splits
            /\ \A s1 \in 0..(cfg.worker_num_splits - 1) :
                  /\ pc[<<w, s1>>] = "ready"
                  /\ curr_traj_slice[<<w, s1>>] \in Slices
                  /\ rollout_step[<<w, s1>>] = 0
                  /\ \A i \in Agents :
                        /\ curr_episode_reward[<<w, s1>>][i] = 0
                        /\ curr_episode_len[<<w, s1>>][i] = 0
                        /\ last_rnn_state[<<w, s1>>][i] = 0
                  /\ \A s2 \in 0..(cfg.worker_num_splits - 1) :
                        s1 # s2 => curr_traj_slice[<<w, s1>>] # curr_traj_slice[<<w, s2>>]

\* C19: between its advance calls a runner's step offset is in 0..T-1; the request
\* a call returns names the slice the runner holds after the call and its step
\* offset; the request of a call that completes a rollout names the slice just
\* acquired, not the one returned as complete, with offset 0.
C19_RequestNamesHeldSliceAndOffset ==
    \A r \in Runners :
        /\ pc[r] = "ready" => rollout_step[r] \in 0..(cfg.rollout - 1)
        /\ Returned(r) =>
              /\ last[r].policy_request = <<curr_traj_slice[r], rollout_step[r]>>
              /\ curr_traj_slice[r] \in Slices
              /\ last[r].complete_rollouts # <<>> =>
                    /\ last[r].policy_request[2] = 0
                    /\ last[r].policy_request[1] # last[r].complete_rollouts[1]
                    /\ last[r].policy_request[1] \notin completed \cup consumer

\* one runner is in the middle of a rollout of two steps while another has just
\* completed one
C19_Witness ==
    \E r1 \in Runners, r2 \in Runners :
        /\ Returned(r1) /\ last[r1].complete_rollouts = <<>> /\ rollout_step[r1] = 1
        /\ Returned(r2) /\ last[r2].complete_rollouts # <<>> /\ ncalls[r2] = 2
        /\ last[r2].policy_request[2] = 0

\* C20: a worker advance call for split s leaves the step offset, held slice,
\* accumulators and recurrent state of every runner other than runner s of that
\* worker as they were, changes no env_runners list, and changes no worker's
\* num_complete_rollouts but, possibly, its own.
C20_AdvanceChangesOnlyItsRunner ==
    [][\A w \in WorkerIds, s \in SplitIds :
          WorkerAdvance(w, s) =>
              /\ \A r \in Runners \ {<<w, s>>} :
                    /\ rollout_step'[r] = rollout_step[r]
                    /\ curr_traj_slice'[r] = curr_traj_slice[r]
                    /\ curr_traj'[r] = curr_traj[r]
                    /\ curr_episode_reward'[r] = curr_episode_reward[r]
                    /\ curr_episode_len'[r] = curr_episode_len[r]
                    /\ last_rnn_state'[r] = last_rnn_state[r]
                    /\ pc'[r] = pc[r]
              /\ env_runners' = env_runners
              /\ \A w2 \in Workers \ {w} :
                    num_complete_rollouts'[w2] = num_complete_rollouts[w2]]_vars

\* the worker has advanced split 1 while its runner of split 0 was in the middle
\* of a rollout
C20_Witness ==
    \E w \in Workers :
        /\ wlast[w].op = "advance" /\ wlast[w].split_idx = 1 /\ ~wlast[w].raised
        /\ Len(env_runners[w]) = 2
        /\ rollout_step[<<w, 0>>] = 1 /\ last[<<w, 0>>].op = "advance"
        /\ rollout_step[<<w, 1>>] = 1

\* C21: a worker advance call whose runner fails to get a slice at the rollout
\* horizon has written row T of the slice (obs and rnn_states) before the failed
\* get and nothing after it; it emits no batch, puts no request, emits no
\* statistics and leaves num_complete_rollouts as it was; the runner still holds
\* the full slice, with step offset T.
C21_FailedAcquisitionEmitsNothing ==
    /\ [](\A w \in Workers :
             (wlast[w].op = "advance" /\ wlast[w].error = "RuntimeError") =>
                 LET r == <<w, wlast[w].split_idx>>
                     log == call_log[r]
                 IN  /\ worker_pc[w] = "failed" /\ pc[r] = "failed"
                     /\ log[Len(log)] = GetEmpty
                     /\ log[Len(log) - 1]
                           = WriteNext(curr_traj[r], cfg.rollout, last_rnn_state[r])
                     /\ cfg.rollout \in written[curr_traj[r]]["obs"]
                     /\ cfg.rollout \in written[curr_traj[r]]["rnn_states"]
                     /\ wlast[w].trajectories = <<>>
                     /\ wlast[w].put = <<>>
                     /\ wlast[w].report_msg = <<>>
                     /\ wlast[w].delays = <<>>
                     /\ rollout_step[r] = cfg.rollout
                     /\ curr_traj_slice[r] \in Slices
                     /\ curr_traj[r] = curr_traj_slice[r]
                     /\ curr_traj_slice[r] \notin completed \cup consumer)
    /\ [][\A w \in WorkerIds, s \in SplitIds :
             (WorkerAdvance(w, s) /\ wlast'[w].error = "RuntimeError") =>
                 /\ inference_queues' = inference_queues
                 /\ num_complete_rollouts' = num_complete_rollouts
                 /\ completed' = completed
                 /\ slept' = slept
                 /\ traj_buffer_queue' = traj_buffer_queue
                 /\ curr_traj_slice'[<<w, s>>] = curr_traj_slice[<<w, s>>]
                 /\ rollout_step'[<<w, s>>] = rollout_step[<<w, s>>] + 1]_vars

\* the acquisition failed at the end of a rollout of one step in which the agent
\* finished an episode, while the other slices were held by other runners
C21_Witness ==
    \E w \in Workers :
        /\ wlast[w].op = "advance" /\ wlast[w].error = "RuntimeError"
        /\ cfg.rollout = 1
        /\ last[<<w, wlast[w].split_idx>>].dones[0]
        /\ traj_buffer_queue = <<>>
        /\ Cardinality({r \in Runners : pc[r] = "ready"}) = NumSlices - 1

\* C22: every slice of the storage is in exactly one place: once in the buffer
\* queue, held by one runner, on its way to the consumer, or with the consumer.
C22_SliceConservation ==
    \A h \in Slices :
        Cardinality({k \in 1..Len(traj_buffer_queue) : traj_buffer_queue[k] = h})
        + Cardinality({r \in Runners : curr_traj_slice[r] = h})
        + (IF h \in completed THEN 1 ELSE 0)
        + (IF h \in consumer THEN 1 ELSE 0)
        = 1

====
